---- MODULE Spec2Model ----
(***************************************************************************)
(* Model of the two core components of LuceneInRust:                       *)
(*   - ApproximatePriorityQueue   (src/base/src/exec/approx_priority_queue.rs) *)
(*   - DocumentsWriterPerThreadPool (src/base/src/exec/doc_writer_per_thread_pool.rs) *)
(*                                                                         *)
(* Machine words (usize, u64) are modelled as the set of the positions of  *)
(* their 1 bits, a subset of 0..WordBits-1: OR is union, AND is            *)
(* intersection, NOT is complement, a right shift by n moves position b to *)
(* b-n and drops the positions below n.  Option<T> is modelled as a        *)
(* sequence of length 0 (None) or 1 (Some(x)).  Vec indices are 0-based in *)
(* the source and 1-based here: At(pg, i) is pg[i + 1].                    *)
(***************************************************************************)
EXTENDS Integers, Sequences, FiniteSets, TLC

\* ------------------------------------------------------------------------
\* Program constants
\* ------------------------------------------------------------------------
WeightBits == 8       \* WeightTy = u8
SIZE == 8             \* size_of::<WeightTy>() * 8
WordBits == 64        \* used_slots: usize, pool word: AtomicU64

\* ------------------------------------------------------------------------
\* Bounds of the model
\* ------------------------------------------------------------------------
MaxAdds == 3          \* number of add calls in one behaviour
MaxEntry == 1         \* entries are 0..MaxEntry
NumThreads == 2       \* threads sharing the slot bitmap
NumRacers == 3        \* threads racing for one slot
WeighAdds == 1        \* add calls in one behaviour that draws any 8-bit weight
MaxWrites == 2        \* writes to slot buffers in one behaviour
MaxFill == 9          \* add calls in one behaviour that fills the fast path

Entries == 0..MaxEntry
Weights == {0, 1, 2, 255}
Preds == SUBSET Entries      \* a predicate p is the set of entries it accepts
AnyEntry == 0..255           \* the predicate |_| true
OrderWeights == {0, 1, 2, 3, 9, 64, 255}
ByteWeights == 0..(2^WeightBits - 1)     \* every value of WeightTy
FillWeights == {255, 1}
FillPreds == {Entries, {MaxEntry}}       \* |_| true and |e| *e == MaxEntry
Threads == 1..NumThreads
Racers == 1..NumRacers
SlotIdx == {0, 5, 63}        \* the slot indices the threads use
HandoffSlots == {5, 63}      \* the slots whose buffers are handed over

\* ------------------------------------------------------------------------
\* Option<T>
\* ------------------------------------------------------------------------
None == <<>>
Some(x) == <<x>>
is_some(o) == o # None
unwrap(o) == o[1]

\* ------------------------------------------------------------------------
\* Word operations
\* ------------------------------------------------------------------------
AllBits == 0..(WordBits - 1)
bit(i) == {i}                                   \* 1 << i
bit_not(w) == AllBits \ w                       \* !w
bit_or(a, b) == a \cup b                        \* a | b
bit_and(a, b) == a \cap b                       \* a & b
shr(w, n) == {b - n : b \in {x \in w : x >= n}} \* w >> n, n < WordBits
SetMin(S) == CHOOSE m \in S : \A x \in S : m <= x
SetMax(S) == CHOOSE m \in S : \A x \in S : m >= x
trailing_zeros(w) == IF w = {} THEN WordBits ELSE SetMin(w)

\* u8::leading_zeros
leading_zeros_trailing(weight) ==
    IF weight = 0 THEN WeightBits
    ELSE CHOOSE k \in 0..(WeightBits - 1) :
             weight % (2^k) = 0 /\ weight % (2^(k + 1)) # 0

leading_zeros_capped(weight) ==
    IF weight = 0 THEN WeightBits - 1
    ELSE (WeightBits - 1) - (CHOOSE k \in 0..(WeightBits - 1) :
                                 2^k <= weight /\ weight < 2^(k + 1))

leading_zeros(weight) ==
    IF weight = 0 THEN WeightBits
    ELSE (WeightBits - 1) - (CHOOSE k \in 0..(WeightBits - 1) :
                                 2^k <= weight /\ weight < 2^(k + 1))

\* ------------------------------------------------------------------------
\* Vec<Option<T>> helpers (0-based index i)
\* ------------------------------------------------------------------------
At(pg, i) == pg[i + 1]
SetAt(pg, i, v) == [pg EXCEPT ![i + 1] = v]
RemoveAt(pg, i) == SubSeq(pg, 1, i) \o SubSeq(pg, i + 2, Len(pg))

\* ------------------------------------------------------------------------
\* ApproximatePriorityQueue
\* ------------------------------------------------------------------------
new_pages == [i \in 1..SIZE |-> None]
new_used_slots == {}

\* self.used_slots |= 1usize << destination_slot
mark_used_skipped(us, slot) == us
mark_used(us, slot) == bit_or(us, bit(slot))

\* self.used_slots &= !(1 << i)
clear_used(us, slot) == bit_and(us, bit_not(bit(slot)))

\* std::mem::take(&mut self.pages[i]): the slot is left holding None
take_page_kept(pg, i) == pg
take_page(pg, i) == SetAt(pg, i, None)

\* expected_slot + (free_slots >> expected_slot).trailing_zeros()
destination_from_zero(us, expected_slot) == trailing_zeros(bit_not(us))
destination_unshifted(us, expected_slot) ==
    LET free_slots == bit_not(us)
    IN trailing_zeros(shr(free_slots, expected_slot))

destination(us, expected_slot) ==
    LET free_slots == bit_not(us)
    IN expected_slot + trailing_zeros(shr(free_slots, expected_slot))

\* The else branch of `if expected_slot < SIZE`: the entry is pushed at once.
direct_overflow(weight) == ~(leading_zeros(weight) < SIZE)

\* add: the queue after the call, its outcome and the index written.
add(pg, us, entry, weight) ==
    LET expected_slot == leading_zeros(weight) IN
    IF expected_slot < SIZE
    THEN LET destination_slot == destination(us, expected_slot)
         IN IF ~(destination_slot >= expected_slot)
            THEN [pages |-> pg, used_slots |-> us, status |-> "panic", at |-> -1]
            ELSE IF destination_slot < SIZE
            THEN LET old == At(pg, destination_slot) IN
                 [pages |-> SetAt(pg, destination_slot, Some(entry)),
                  used_slots |-> mark_used(us, destination_slot),
                  status |-> IF old = None THEN "ok" ELSE "panic",
                  at |-> destination_slot]
            ELSE [pages |-> Append(pg, Some(entry)), used_slots |-> us,
                  status |-> "ok", at |-> Len(pg)]
    ELSE [pages |-> Append(pg, Some(entry)), used_slots |-> us,
          status |-> "ok", at |-> Len(pg)]

\* The loop of poll over the fast path: the bucket it breaks on, -1 for
\* `break None`, -2 when checked_shr returns None.
RECURSIVE poll_loop_any(_, _, _, _)
poll_loop_any(pg, us, P, idx) ==
    IF idx >= WordBits THEN -2
    ELSE LET next_used_slot_post_idx == idx + trailing_zeros(shr(us, idx)) IN
         IF next_used_slot_post_idx >= SIZE THEN -1
         ELSE IF is_some(At(pg, next_used_slot_post_idx))
              THEN next_used_slot_post_idx
              ELSE poll_loop_any(pg, us, P, next_used_slot_post_idx + 1)

RECURSIVE poll_loop_narrow(_, _, _, _)
poll_loop_narrow(pg, us, P, idx) ==
    IF idx >= WeightBits THEN -2
    ELSE LET next_used_slot_post_idx == idx + trailing_zeros(shr(us, idx)) IN
         IF next_used_slot_post_idx >= SIZE THEN -1
         ELSE IF /\ is_some(At(pg, next_used_slot_post_idx))
                 /\ unwrap(At(pg, next_used_slot_post_idx)) \in P
              THEN next_used_slot_post_idx
              ELSE poll_loop_narrow(pg, us, P, next_used_slot_post_idx + 1)

RECURSIVE poll_loop(_, _, _, _)
poll_loop(pg, us, P, idx) ==
    IF idx >= WordBits THEN -2
    ELSE LET next_used_slot_post_idx == idx + trailing_zeros(shr(us, idx)) IN
         IF next_used_slot_post_idx >= SIZE THEN -1
         ELSE IF /\ is_some(At(pg, next_used_slot_post_idx))
                 /\ unwrap(At(pg, next_used_slot_post_idx)) \in P
              THEN next_used_slot_post_idx
              ELSE poll_loop(pg, us, P, next_used_slot_post_idx + 1)

\* The largest idx the loop of poll hands to checked_shr.
RECURSIVE poll_last_idx(_, _, _, _)
poll_last_idx(pg, us, P, idx) ==
    IF idx >= WordBits THEN idx
    ELSE LET next_used_slot_post_idx == idx + trailing_zeros(shr(us, idx)) IN
         IF next_used_slot_post_idx >= SIZE THEN idx
         ELSE IF /\ is_some(At(pg, next_used_slot_post_idx))
                 /\ unwrap(At(pg, next_used_slot_post_idx)) \in P
              THEN idx
              ELSE poll_last_idx(pg, us, P, next_used_slot_post_idx + 1)

\* The overflow scan of poll: iter().rev().enumerate().take(len - SIZE).find_map;
\* the enumerate index of the first match, -1 when there is none.
poll_overflow_scan_forward(pg, P) ==
    LET len == Len(pg)
        hits == {i \in 0..(len - SIZE - 1) :
                    /\ is_some(At(pg, len - 1 - i))
                    /\ unwrap(At(pg, len - 1 - i)) \in P}
    IN IF hits = {} THEN -1 ELSE SetMax(hits)

poll_overflow_scan_short(pg, P) ==
    LET len == Len(pg)
        hits == {i \in 0..(len - SIZE - 2) :
                    /\ is_some(At(pg, len - 1 - i))
                    /\ unwrap(At(pg, len - 1 - i)) \in P}
    IN IF hits = {} THEN -1 ELSE SetMin(hits)

poll_overflow_scan(pg, P) ==
    LET len == Len(pg)
        hits == {i \in 0..(len - SIZE - 1) :
                    /\ is_some(At(pg, len - 1 - i))
                    /\ unwrap(At(pg, len - 1 - i)) \in P}
    IN IF hits = {} THEN -1 ELSE SetMin(hits)

poll_take_first(pg, us, P) ==
    LET y == poll_loop(pg, us, P, 0) IN
    IF y = -2
    THEN [pages |-> pg, used_slots |-> us, status |-> "err", ret |-> None, at |-> -1]
    ELSE IF y >= 0
    THEN [pages |-> take_page(pg, y),
          used_slots |-> clear_used(us, y),
          status |-> "ok", ret |-> At(pg, y), at |-> y]
    ELSE LET matching_idx == poll_overflow_scan(pg, P)
             len == Len(pg)
         IN IF matching_idx >= 0
            THEN [pages |-> take_page(pg, len - matching_idx - 1),
                  used_slots |-> us, status |-> "ok",
                  ret |-> At(pg, len - matching_idx - 1),
                  at |-> len - matching_idx - 1]
            ELSE IF us = {}
            THEN [pages |-> pg, used_slots |-> us, status |-> "ok",
                  ret |-> None, at |-> -1]
            ELSE [pages |-> take_page(pg, SetMin(us)),
                  used_slots |-> clear_used(us, SetMin(us)),
                  status |-> "ok", ret |-> None, at |-> -1]

poll(pg, us, P) ==
    LET y == poll_loop(pg, us, P, 0) IN
    IF y = -2
    THEN [pages |-> pg, used_slots |-> us, status |-> "err", ret |-> None, at |-> -1]
    ELSE IF y >= 0
    THEN [pages |-> take_page(pg, y),
          used_slots |-> clear_used(us, y),
          status |-> "ok", ret |-> At(pg, y), at |-> y]
    ELSE LET matching_idx == poll_overflow_scan(pg, P)
             len == Len(pg)
         IN IF matching_idx >= 0
            THEN [pages |-> take_page(pg, len - matching_idx - 1),
                  used_slots |-> us, status |-> "ok",
                  ret |-> At(pg, len - matching_idx - 1),
                  at |-> len - matching_idx - 1]
            ELSE [pages |-> pg, used_slots |-> us, status |-> "ok",
                  ret |-> None, at |-> -1]

remove_last(pg, us, entry) ==
    LET found == {i \in 0..(Len(pg) - 1) : At(pg, i) = Some(entry)} IN
    IF found # {}
    THEN LET i == SetMax(found) IN
         IF i >= SIZE
         THEN [pages |-> RemoveAt(pg, i), used_slots |-> us, ret |-> TRUE, at |-> i]
         ELSE [pages |-> take_page(pg, i),
               used_slots |-> clear_used(us, i),
               ret |-> TRUE, at |-> i]
    ELSE [pages |-> pg, used_slots |-> us, ret |-> FALSE, at |-> -1]

remove_always_delete(pg, us, entry) ==
    LET found == {i \in 0..(Len(pg) - 1) : At(pg, i) = Some(entry)} IN
    IF found # {}
    THEN LET i == SetMin(found) IN
         [pages |-> RemoveAt(pg, i),
          used_slots |-> IF i >= SIZE THEN us ELSE clear_used(us, i),
          ret |-> TRUE, at |-> i]
    ELSE [pages |-> pg, used_slots |-> us, ret |-> FALSE, at |-> -1]

remove(pg, us, entry) ==
    LET found == {i \in 0..(Len(pg) - 1) : At(pg, i) = Some(entry)} IN
    IF found # {}
    THEN LET i == SetMin(found) IN
         IF i >= SIZE
         THEN [pages |-> RemoveAt(pg, i), used_slots |-> us, ret |-> TRUE, at |-> i]
         ELSE [pages |-> take_page(pg, i),
               used_slots |-> clear_used(us, i),
               ret |-> TRUE, at |-> i]
    ELSE [pages |-> pg, used_slots |-> us, ret |-> FALSE, at |-> -1]

is_empty_inverted(us) == us # {}
is_empty(us) == us = {}

\* ------------------------------------------------------------------------
\* DocumentsWriterPerThreadPool
\* ------------------------------------------------------------------------
new_pool == {}

\* AtomicU64::fetch_or / fetch_and: one atomic step, the previous value is
\* returned.
fetch_or(w, v) == [now |-> bit_or(w, v), prev |-> w]
fetch_and(w, v) == [now |-> bit_and(w, v), prev |-> w]

set_bit_inverted(w, i) ==
    LET bit_i == bit(i)
        f == fetch_or(w, bit_i)
    IN [pages |-> f.now, ret |-> bit_and(f.prev, bit_i) # {}]

set_bit_post_value(w, i) ==
    LET bit_i == bit(i)
        f == fetch_or(w, bit_i)
    IN [pages |-> f.now, ret |-> bit_and(f.now, bit_i) # {}]

set_bit_store(w, i) ==
    LET bit_i == bit(i)
    IN [pages |-> bit_i, ret |-> bit_and(w, bit_i) = {}]

set_bit(w, i) ==
    LET bit_i == bit(i)
        f == fetch_or(w, bit_i)
    IN [pages |-> f.now, ret |-> bit_and(f.prev, bit_i) = {}]

unset_bit_no_complement(w, i) ==
    LET bit_i == bit(i)
        f == fetch_and(w, bit_i)
    IN [pages |-> f.now, ret |-> bit_and(f.prev, bit_i) # {}]

unset_bit(w, i) ==
    LET bit_i == bit(i)
        f == fetch_and(w, bit_not(bit_i))
    IN [pages |-> f.now, ret |-> bit_and(f.prev, bit_i) # {}]

\* The memory orderings the two calls pass to fetch_or and fetch_and.
set_bit_ordering == "AcqRel"

unset_bit_ordering_relaxed == "Relaxed"

unset_bit_ordering == "Release"

\* Release/acquire semantics of a read-modify-write on one atomic word.
\* A view maps each slot to the newest version of the slot's buffer that is
\* guaranteed visible.  Every write of the word is a read-modify-write, so
\* each one reads the latest write and continues its release sequence: the
\* view carried by the word is kept, a releasing call adds the caller's
\* view to it, an acquiring call adds the word's view to the caller's.
acquires(ordering) == ordering \in {"Acquire", "AcqRel", "SeqCst"}
releases(ordering) == ordering \in {"Release", "AcqRel", "SeqCst"}

Join(v1, v2) == [i \in DOMAIN v1 |-> IF v1[i] >= v2[i] THEN v1[i] ELSE v2[i]]

rmw_views(ordering, thread_view, word_view) ==
    [thread |-> IF acquires(ordering) THEN Join(thread_view, word_view)
                ELSE thread_view,
     word |-> IF releases(ordering) THEN Join(word_view, thread_view)
              ELSE word_view]

\* ------------------------------------------------------------------------
\* State
\* ------------------------------------------------------------------------
VARIABLES
    pages,       \* ApproximatePriorityQueue::pages
    used_slots,  \* ApproximatePriorityQueue::used_slots
    call,        \* the last call on the queue and what it returned
    added,       \* history: bag of the entries passed to add
    taken,       \* history: bag of the entries returned by poll or removed
    born,        \* history: for each overflow position of pages, a stamp that
                 \*          grows with every push (0 for a bucket or a hole)
    phase,       \* "open": any call; "drain": only poll(|_| true); "done"
    drain_n,     \* number of entries held when the drain began
    out,         \* what the polls of the drain returned, in order
    lzs,         \* leading-zero counts of the weights added, in order
    pool_pages,  \* DocumentsWriterPerThreadPool::pages
    pool_call,   \* the last call on the pool: thread, operation, index, result
    holds,       \* history: for each thread, the slots it holds (from its
                 \*          set_bit returning true until its unset_bit)
    disciplined, \* history: every unset_bit(i) so far came from a holder of i
    open_set,    \* history: indices with a set_bit and no unset_bit since
    race,        \* the racing scenario: the index raced for and each
                 \*          racer's outcome
    polled,      \* history: some poll has returned an entry
    buf,         \* for each slot, the number of the last write to its buffer
    seen,        \* for each thread and slot, the last buffer write that
                 \*          happens-before the thread's next step
    word_seen    \* for each slot, the last buffer write released through
                 \*          the pool word

queue_vars == <<pages, used_slots, call, added, taken, born>>
scenario_vars == <<phase, drain_n, out, lzs>>
pool_vars == <<pool_pages, pool_call, holds, disciplined, open_set>>
extra_vars == <<polled, buf, seen, word_seen>>
vars == <<queue_vars, scenario_vars, pool_vars, race, extra_vars>>

NoCall == [op |-> "new", entry |-> -1, weight |-> -1,
           ret |-> None, ok |-> TRUE, status |-> "ok", at |-> -1]

\* Bags as functions from the elements held to their positive counts.
EmptyLedger == [e \in {} |-> 0]
Count(b, e) == IF e \in DOMAIN b THEN b[e] ELSE 0
Bump(b, e) == [x \in DOMAIN b \cup {e} |-> Count(b, x) + (IF x = e THEN 1 ELSE 0)]
RECURSIVE Total(_)
Total(b) == IF DOMAIN b = {} THEN 0
            ELSE LET e == CHOOSE x \in DOMAIN b : TRUE
                 IN b[e] + Total([x \in DOMAIN b \ {e} |-> b[x]])

Stored(pg, e) == Cardinality({i \in 0..(Len(pg) - 1) : At(pg, i) = Some(e)})
Held(pg) == Cardinality({i \in 0..(Len(pg) - 1) : is_some(At(pg, i))})

NoPoolCall == [thread |-> 0, op |-> "new", i |-> -1, ret |-> FALSE]

InitPool ==
    /\ pool_pages = new_pool
    /\ pool_call = NoPoolCall
    /\ holds = [t \in Threads |-> {}]
    /\ disciplined = TRUE
    /\ open_set = {}

InitExtra ==
    /\ polled = FALSE
    /\ buf = [i \in SlotIdx |-> [version |-> 0, writer |-> 0]]
    /\ seen = [t \in Threads |-> [i \in SlotIdx |-> 0]]
    /\ word_seen = [i \in SlotIdx |-> 0]

InitQueue ==
    /\ pages = new_pages
    /\ used_slots = new_used_slots
    /\ call = NoCall
    /\ added = EmptyLedger
    /\ taken = EmptyLedger
    /\ born = [i \in 1..SIZE |-> 0]
    /\ phase = "open"
    /\ drain_n = 0
    /\ out = <<>>
    /\ lzs = <<>>

Init ==
    /\ InitQueue
    /\ InitPool
    /\ InitExtra
    /\ race = [i |-> 0, res |-> [t \in Racers |-> "ready"]]

DoAdd(entry, weight) ==
    LET r == add(pages, used_slots, entry, weight)
        stamp == 1 + SetMax({0} \cup {born[k] : k \in 1..Len(born)})
    IN /\ pages' = r.pages
       /\ used_slots' = r.used_slots
       /\ call' = [NoCall EXCEPT !.op = "add", !.entry = entry, !.weight = weight,
                                 !.status = r.status, !.at = r.at]
       /\ added' = Bump(added, entry)
       /\ born' = IF Len(r.pages) > Len(pages) THEN Append(born, stamp) ELSE born
       /\ UNCHANGED taken

DoPoll(P) ==
    LET r == poll(pages, used_slots, P) IN
       /\ pages' = r.pages
       /\ used_slots' = r.used_slots
       /\ call' = [NoCall EXCEPT !.op = "poll", !.ret = r.ret,
                                 !.status = r.status, !.at = r.at]
       /\ taken' = IF is_some(r.ret) THEN Bump(taken, unwrap(r.ret)) ELSE taken
       /\ born' = IF r.at < 0 THEN born ELSE SetAt(born, r.at, 0)
       /\ UNCHANGED added

Add(entry, weight) ==
    /\ phase = "open"
    /\ Total(added) < MaxAdds
    /\ DoAdd(entry, weight)
    /\ UNCHANGED <<scenario_vars, pool_vars, race, extra_vars>>

Poll(P) ==
    /\ phase = "open"
    /\ DoPoll(P)
    /\ UNCHANGED <<scenario_vars, pool_vars, race, extra_vars>>

Remove(entry) ==
    /\ phase = "open"
    /\ LET r == remove(pages, used_slots, entry) IN
       /\ pages' = r.pages
       /\ used_slots' = r.used_slots
       /\ call' = [NoCall EXCEPT !.op = "remove", !.entry = entry, !.ok = r.ret,
                                 !.at = r.at]
       /\ taken' = IF r.ret THEN Bump(taken, entry) ELSE taken
       /\ born' = IF r.at < 0 THEN born
                  ELSE IF Len(r.pages) < Len(pages) THEN RemoveAt(born, r.at)
                  ELSE SetAt(born, r.at, 0)
    /\ UNCHANGED <<added, scenario_vars, pool_vars, race, extra_vars>>

Next ==
    \/ \E entry \in Entries, weight \in Weights : Add(entry, weight)
    \/ \E P \in Preds : Poll(P)
    \/ \E entry \in Entries : Remove(entry)

Spec == Init /\ [][Next]_vars

\* ------------------------------------------------------------------------
\* The queue with a record of whether a poll has taken an entry out
\* ------------------------------------------------------------------------
TrackedPoll(P) ==
    /\ phase = "open"
    /\ DoPoll(P)
    /\ polled' = (polled \/ is_some(call'.ret))
    /\ UNCHANGED <<scenario_vars, pool_vars, race, buf, seen, word_seen>>

NextRemoval ==
    \/ \E entry \in Entries, weight \in Weights : Add(entry, weight)
    \/ \E P \in Preds : TrackedPoll(P)
    \/ \E entry \in Entries : Remove(entry)

SpecRemoval == Init /\ [][NextRemoval]_vars

\* ------------------------------------------------------------------------
\* The queue with is_empty() among the calls
\* ------------------------------------------------------------------------
IsEmpty ==
    /\ phase = "open"
    /\ call' = [NoCall EXCEPT !.op = "is_empty", !.ok = is_empty(used_slots)]
    /\ UNCHANGED <<pages, used_slots, added, taken, born>>
    /\ UNCHANGED <<scenario_vars, pool_vars, race, extra_vars>>

NextEmpty ==
    \/ Next
    \/ IsEmpty

SpecEmpty == Init /\ [][NextEmpty]_vars

\* ------------------------------------------------------------------------
\* Hand-off of a slot's buffer: a thread claims a slot with set_bit, writes
\* the slot's buffer while it holds the bit, and releases with unset_bit.
\* ------------------------------------------------------------------------
Writes == LET RECURSIVE Sum(_)
              Sum(S) == IF S = {} THEN 0
                        ELSE LET i == CHOOSE j \in S : TRUE
                             IN buf[i].version + Sum(S \ {i})
          IN Sum(SlotIdx)

Claim(t, i) ==
    LET r == set_bit(pool_pages, i)
        v == rmw_views(set_bit_ordering, seen[t], word_seen)
    IN
    /\ pool_pages' = r.pages
    /\ pool_call' = [thread |-> t, op |-> "set_bit", i |-> i, ret |-> r.ret]
    /\ holds' = IF r.ret THEN [holds EXCEPT ![t] = @ \cup {i}] ELSE holds
    /\ open_set' = open_set \cup {i}
    /\ seen' = [seen EXCEPT ![t] = v.thread]
    /\ word_seen' = v.word
    /\ UNCHANGED <<disciplined, queue_vars, scenario_vars, race, polled, buf>>

WriteBuf(t, i) ==
    /\ i \in holds[t]
    /\ Writes < MaxWrites
    /\ buf' = [buf EXCEPT ![i] = [version |-> @.version + 1, writer |-> t]]
    /\ seen' = [seen EXCEPT ![t][i] = buf[i].version + 1]
    /\ UNCHANGED <<pool_vars, queue_vars, scenario_vars, race, polled,
                   word_seen>>

Release(t, i) ==
    LET r == unset_bit(pool_pages, i)
        v == rmw_views(unset_bit_ordering, seen[t], word_seen)
    IN
    /\ i \in holds[t]
    /\ pool_pages' = r.pages
    /\ pool_call' = [thread |-> t, op |-> "unset_bit", i |-> i, ret |-> r.ret]
    /\ holds' = [holds EXCEPT ![t] = @ \ {i}]
    /\ open_set' = open_set \ {i}
    /\ seen' = [seen EXCEPT ![t] = v.thread]
    /\ word_seen' = v.word
    /\ UNCHANGED <<disciplined, queue_vars, scenario_vars, race, polled, buf>>

NextHandoff ==
    \/ \E t \in Threads, i \in HandoffSlots : Claim(t, i)
    \/ \E t \in Threads, i \in HandoffSlots : WriteBuf(t, i)
    \/ \E t \in Threads, i \in HandoffSlots : Release(t, i)

SpecHandoff == Init /\ [][NextHandoff]_vars

\* ------------------------------------------------------------------------
\* add with any 8-bit weight
\* ------------------------------------------------------------------------
AddWeighed(weight) ==
    /\ phase = "open"
    /\ Total(added) < WeighAdds
    /\ DoAdd(0, weight)
    /\ UNCHANGED <<scenario_vars, pool_vars, race, extra_vars>>

NextWeight == \E weight \in ByteWeights : AddWeighed(weight)

SpecWeight == Init /\ [][NextWeight]_vars

\* ------------------------------------------------------------------------
\* Filling the fast path: enough add calls to occupy every bucket
\* ------------------------------------------------------------------------
\* The first SIZE entries added are equal, the later ones differ from them.
FillEntry == IF Total(added) < SIZE THEN 0 ELSE MaxEntry

FillAdd(weight) ==
    /\ phase = "open"
    /\ Total(added) < MaxFill
    /\ DoAdd(FillEntry, weight)
    /\ UNCHANGED <<scenario_vars, pool_vars, race, extra_vars>>

NextFill ==
    \/ \E weight \in FillWeights : FillAdd(weight)
    \/ \E P \in FillPreds : Poll(P)
    \/ \E entry \in Entries : Remove(entry)

SpecFill == Init /\ [][NextFill]_vars

\* ------------------------------------------------------------------------
\* Drain scenario: from any state, poll(|_| true) until it returns None
\* ------------------------------------------------------------------------
BeginDrain ==
    /\ phase = "open"
    /\ phase' = "drain"
    /\ drain_n' = Held(pages)
    /\ UNCHANGED <<queue_vars, out, lzs, pool_vars, race, extra_vars>>

DrainPoll ==
    /\ phase = "drain"
    /\ DoPoll(AnyEntry)
    /\ out' = Append(out, call'.ret)
    /\ phase' = IF call'.ret = None THEN "done" ELSE "drain"
    /\ UNCHANGED <<drain_n, lzs, pool_vars, race, extra_vars>>

NextDrain ==
    \/ Next
    \/ BeginDrain
    \/ DrainPoll

SpecDrain == Init /\ [][NextDrain]_vars

\* ------------------------------------------------------------------------
\* Ordering scenario: entries that are their own weight (as in tests::test_add),
\* with pairwise distinct leading-zero counts, added to an empty queue and
\* then polled out.
\* ------------------------------------------------------------------------
OrderAdd(weight) ==
    /\ phase = "open"
    /\ \A k \in 1..Len(lzs) : lzs[k] # leading_zeros(weight)
    /\ DoAdd(weight, weight)
    /\ lzs' = Append(lzs, leading_zeros(weight))
    /\ UNCHANGED <<phase, drain_n, out, pool_vars, race, extra_vars>>

NextOrder ==
    \/ \E weight \in OrderWeights : OrderAdd(weight)
    \/ BeginDrain
    \/ DrainPoll

SpecOrder == Init /\ [][NextOrder]_vars

\* ------------------------------------------------------------------------
\* The slot bitmap shared by threads: every call is one atomic step
\* ------------------------------------------------------------------------
SetBit(t, i) ==
    LET r == set_bit(pool_pages, i) IN
    /\ pool_pages' = r.pages
    /\ pool_call' = [thread |-> t, op |-> "set_bit", i |-> i, ret |-> r.ret]
    /\ holds' = IF r.ret THEN [holds EXCEPT ![t] = @ \cup {i}] ELSE holds
    /\ open_set' = open_set \cup {i}
    /\ UNCHANGED <<disciplined, queue_vars, scenario_vars, race, extra_vars>>

UnsetBit(t, i) ==
    LET r == unset_bit(pool_pages, i) IN
    /\ pool_pages' = r.pages
    /\ pool_call' = [thread |-> t, op |-> "unset_bit", i |-> i, ret |-> r.ret]
    /\ disciplined' = (disciplined /\ i \in holds[t])
    /\ holds' = [holds EXCEPT ![t] = @ \ {i}]
    /\ open_set' = open_set \ {i}
    /\ UNCHANGED <<queue_vars, scenario_vars, race, extra_vars>>

NextBits ==
    \/ \E t \in Threads, i \in SlotIdx : SetBit(t, i)
    \/ \E t \in Threads, i \in SlotIdx : UnsetBit(t, i)

SpecBits == Init /\ [][NextBits]_vars

\* ------------------------------------------------------------------------
\* Racing scenario: every racer calls set_bit(race.i) once, the bit being 0
\* at first and nobody calling unset_bit(race.i); other slots are claimed
\* and released meanwhile.
\* ------------------------------------------------------------------------
InitRace ==
    /\ InitQueue
    /\ InitPool
    /\ InitExtra
    /\ race \in [i : SlotIdx, res : [Racers -> {"ready"}]]

RaceSet(t) ==
    /\ race.res[t] = "ready"
    /\ LET r == set_bit(pool_pages, race.i) IN
       /\ pool_pages' = r.pages
       /\ race' = [race EXCEPT !.res[t] = IF r.ret THEN "true" ELSE "false"]
    /\ UNCHANGED <<pool_call, holds, disciplined, open_set, queue_vars, scenario_vars, extra_vars>>

OtherSet(j) ==
    /\ j # race.i
    /\ pool_pages' = set_bit(pool_pages, j).pages
    /\ UNCHANGED <<race, pool_call, holds, disciplined, open_set, queue_vars, scenario_vars, extra_vars>>

OtherUnset(j) ==
    /\ j # race.i
    /\ pool_pages' = unset_bit(pool_pages, j).pages
    /\ UNCHANGED <<race, pool_call, holds, disciplined, open_set, queue_vars, scenario_vars, extra_vars>>

NextRace ==
    \/ \E t \in Racers : RaceSet(t)
    \/ \E j \in SlotIdx : OtherSet(j)
    \/ \E j \in SlotIdx : OtherUnset(j)

SpecRace == InitRace /\ [][NextRace]_vars

\* ========================================================================
\* Properties of ApproximatePriorityQueue
\* ========================================================================
FastSlots == 0..(SIZE - 1)
OverflowIdx(pg) == SIZE..(Len(pg) - 1)

\* The number of leading zero bits of an 8-bit weight, counted bit by bit.
LzCount(weight) == Cardinality({k \in 0..(WeightBits - 1) : 2^k > weight})

\* C1: in every reachable state, for every i in [0, SIZE), bit i of
\* used_slots is set if and only if pages[i] holds an entry.
C1_Occupancy ==
    \A i \in FastSlots : (i \in used_slots) <=> is_some(At(pages, i))

\* A fast-path poll has cleared one bucket while others stay occupied and
\* an entry sits in the overflow.
C1_Witness ==
    /\ call.op = "poll"
    /\ call.at \in FastSlots
    /\ used_slots # {}
    /\ \E i \in FastSlots : i \notin used_slots /\ At(pages, i) = None
    /\ Len(pages) > SIZE

\* C2: the multiset of the entries stored (buckets plus overflow) is the
\* multiset of the entries passed to add minus those returned by poll and
\* those removed: stored + taken = added, entry by entry.
C2_NoLossNoDup ==
    \A e \in DOMAIN added \cup DOMAIN taken \cup Entries :
        Stored(pages, e) + Count(taken, e) = Count(added, e)

\* Entries have been added, one came back from the overflow and one is
\* still stored.
C2_Witness ==
    /\ call.op \in {"poll", "remove"}
    /\ call.at >= SIZE
    /\ Total(taken) >= 1
    /\ Held(pages) >= 1
    /\ Total(added) = MaxAdds

\* C6: add with expected_slot < SIZE stores the entry in the smallest free
\* bucket d with expected_slot <= d < SIZE; when there is none it appends
\* the entry to the overflow, which grows by one, and leaves the buckets
\* and the bitmap as they were.
C6_PlacementStep ==
    call'.op = "add" =>
        LET expected == LzCount(call'.weight)
            e == call'.entry
            free == {d \in expected..(SIZE - 1) : At(pages, d) = None}
        IN expected < SIZE =>
             IF free # {}
             THEN /\ pages' = SetAt(pages, SetMin(free), Some(e))
                  /\ used_slots' = used_slots \cup {SetMin(free)}
             ELSE /\ pages' = Append(pages, Some(e))
                  /\ used_slots' = used_slots

C6_Placement == [][C6_PlacementStep]_vars

\* An add whose expected bucket was taken went to a bucket further right
\* although a bucket below the expected one is free.
C6_Witness ==
    /\ call.op = "add"
    /\ LzCount(call.weight) < SIZE
    /\ call.at > LzCount(call.weight)
    /\ call.at < SIZE
    /\ \E d \in 0..(LzCount(call.weight) - 1) : At(pages, d) = None

\* C7: when an occupied bucket holds an entry satisfying p, poll(p) returns
\* the entry of the lowest such bucket, clears the bucket and its bit and
\* changes nothing else; the overflow is touched only when no bucket
\* matches.
FastHits(pg, P) ==
    {i \in FastSlots : is_some(At(pg, i)) /\ unwrap(At(pg, i)) \in P}

C7_FastPollStep ==
    call'.op = "poll" => \A P \in Preds : Poll(P) =>
        LET hits == FastHits(pages, P) IN
        /\ hits # {} =>
              /\ call'.ret = At(pages, SetMin(hits))
              /\ pages' = SetAt(pages, SetMin(hits), None)
              /\ used_slots' = used_slots \ {SetMin(hits)}
        /\ (\E j \in OverflowIdx(pages) : j >= Len(pages') \/ At(pages', j) # At(pages, j))
              => hits = {}

C7_FastPoll == [][C7_FastPollStep]_vars

\* A poll skipped a lower occupied bucket whose entry fails p and returned
\* a higher one, with an overflow entry that satisfies p left in place.
C7_Witness ==
    /\ call.op = "poll"
    /\ call.at \in FastSlots
    /\ \E i \in 0..(call.at - 1) : is_some(At(pages, i)) /\ At(pages, i) # call.ret
    /\ \E j \in OverflowIdx(pages) : At(pages, j) = call.ret

\* C8: when no bucket entry satisfies p, poll(p) returns the most recently
\* added of the overflow entries that satisfy p and takes that one out;
\* poll returns None only if no entry of the queue satisfies p.
Stamps(b) == {b[i] : i \in 1..Len(b)} \ {0}

C8_OverflowPollStep ==
    call'.op = "poll" => \A P \in Preds : Poll(P) =>
        LET ov == {j \in OverflowIdx(pages) :
                      is_some(At(pages, j)) /\ unwrap(At(pages, j)) \in P}
        IN /\ (FastHits(pages, P) = {} /\ ov # {}) =>
                \E j \in ov :
                    /\ \A k \in ov : At(born, k) <= At(born, j)
                    /\ call'.ret = At(pages, j)
                    /\ Stamps(born') = Stamps(born) \ {At(born, j)}
           /\ call'.ret = None => (FastHits(pages, P) = {} /\ ov = {})

C8_OverflowPoll == [][C8_OverflowPollStep]_vars

\* A poll returned an overflow entry while an older overflow entry that
\* satisfies p as well stays stored.
C8_Witness ==
    /\ call.op = "poll"
    /\ call.at >= SIZE
    /\ is_some(call.ret)
    /\ \E k \in SIZE..(call.at - 1) : At(pages, k) = call.ret

\* C9: from an empty queue, entries whose weights have pairwise distinct
\* leading-zero counts, added in any order and then polled with |_| true
\* and nothing in between, come back in strictly descending weight order,
\* all of them.  (Under SpecOrder every entry is its own weight.)
C9_PriorityOrder ==
    phase \in {"drain", "done"} =>
        /\ \A i, j \in 1..Len(out) :
              (i < j /\ is_some(out[i]) /\ is_some(out[j]))
                  => unwrap(out[i]) > unwrap(out[j])
        /\ phase = "done" =>
              {unwrap(out[k]) : k \in {n \in 1..Len(out) : is_some(out[n])}}
                  = DOMAIN added

\* Five entries, weight 0 among them, added neither in ascending nor in
\* descending order of weight, have all been polled out.
C9_Witness ==
    /\ phase = "done"
    /\ Len(out) = 6
    /\ 0 \in DOMAIN added
    /\ \E i \in 1..(Len(lzs) - 2) : lzs[i] > lzs[i + 1] /\ lzs[i + 1] < lzs[i + 2]

\* C10: from a state holding n entries, n polls with |_| true each return
\* an entry, the next one returns None and is_empty() is then true.
C10_Drain ==
    phase \in {"drain", "done"} =>
        /\ \A k \in 1..Len(out) :
              /\ k <= drain_n => is_some(out[k])
              /\ k = drain_n + 1 => out[k] = None
        /\ phase = "done" => (Len(out) = drain_n + 1 /\ is_empty(used_slots))

\* A drain of one entry has finished on a queue whose overflow has two
\* positions, one of which an earlier poll had emptied.
C10_Witness ==
    /\ phase = "done"
    /\ drain_n = 1
    /\ Len(out) = 2
    /\ Len(pages) >= SIZE + 2
    /\ Total(taken) >= 2

\* ========================================================================
\* Properties of DocumentsWriterPerThreadPool
\* ========================================================================

\* C3: set_bit(i) returns true iff bit i was 0 at its atomic step and
\* leaves it 1; unset_bit(i) returns true iff bit i was 1 and leaves it 0;
\* a set_bit(i) that follows a set_bit(i) with no unset_bit(i) in between
\* returns false.
C3_ClaimReleaseStep ==
    LET i == pool_call'.i IN
    /\ pool_call'.op = "set_bit" =>
          /\ pool_call'.ret <=> (i \notin pool_pages)
          /\ i \in pool_pages'
          /\ i \in open_set => ~pool_call'.ret
    /\ pool_call'.op = "unset_bit" =>
          /\ pool_call'.ret <=> (i \in pool_pages)
          /\ i \notin pool_pages'

C3_ClaimRelease == [][C3_ClaimReleaseStep]_vars

\* A set_bit(63) has just returned false, the bit being held, while
\* another slot has been released again.
C3_Witness ==
    /\ pool_call.op = "set_bit"
    /\ pool_call.i = 63
    /\ ~pool_call.ret
    /\ 63 \in pool_pages
    /\ 5 \notin pool_pages
    /\ \E t \in Threads : 63 \in holds[t] /\ t # pool_call.thread

\* C4: N threads each calling set_bit(i) once on a bit that is 0 at first,
\* with no unset_bit(i): exactly one call returns true, the others false.
RaceWinners == {t \in Racers : race.res[t] = "true"}
RaceLosers == {t \in Racers : race.res[t] = "false"}

C4_OneWinner ==
    /\ Cardinality(RaceWinners) <= 1
    /\ RaceLosers # {} => Cardinality(RaceWinners) = 1
    /\ RaceWinners \cup RaceLosers = Racers =>
          /\ Cardinality(RaceWinners) = 1
          /\ Cardinality(RaceLosers) = NumRacers - 1

\* All racers have returned, the last racer being the winner, while other
\* slots are claimed.
C4_Witness ==
    /\ RaceWinners \cup RaceLosers = Racers
    /\ race.res[NumRacers] = "true"
    /\ pool_pages \ {race.i} # {}

\* C5: as long as unset_bit(i) is only called by the thread holding slot i,
\* at most one thread holds slot i, and bit i is set iff some thread holds
\* slot i.
Holders(i) == {t \in Threads : i \in holds[t]}

C5_MutualExclusion ==
    disciplined =>
        \A i \in AllBits :
            /\ Cardinality(Holders(i)) <= 1
            /\ (i \in pool_pages) <=> (Holders(i) # {})

\* Two threads hold different slots after one of them lost a claim on the
\* other's slot, and a slot has been released.
C5_Witness ==
    /\ disciplined
    /\ Holders(0) # {} /\ Holders(63) # {} /\ Holders(0) # Holders(63)
    /\ pool_call.op = "unset_bit" /\ pool_call.ret
    /\ pool_call.i = 5

\* C11: remove(x) returns true iff an entry equal to x is stored; it then
\* takes out the first equal entry in increasing index order: a bucket is
\* cleared with its bit, an overflow position is deleted and the rest keep
\* their order; a remove that returns false changes nothing.  Once every
\* added entry has been taken out by remove, the overflow is empty.
C11_RemoveStep ==
    call'.op = "remove" =>
        LET x == call'.entry
            found == {i \in 0..(Len(pages) - 1) : At(pages, i) = Some(x)}
        IN /\ call'.ok <=> (found # {})
           /\ call'.ok =>
                LET i == SetMin(found) IN
                IF i < SIZE
                THEN /\ pages' = SetAt(pages, i, None)
                     /\ used_slots' = used_slots \ {i}
                ELSE /\ Len(pages') = Len(pages) - 1
                     /\ \A k \in 0..(i - 1) : At(pages', k) = At(pages, k)
                     /\ \A k \in i..(Len(pages') - 1) : At(pages', k) = At(pages, k + 1)
                     /\ used_slots' = used_slots
           /\ ~call'.ok => (pages' = pages /\ used_slots' = used_slots)
           /\ (call'.ok /\ ~polled' /\ Held(pages') = 0) => Len(pages') = SIZE

C11_Remove == [][C11_RemoveStep]_vars

\* The last of the added entries has been removed, from the overflow,
\* every entry having left through remove.
C11_Witness ==
    /\ call.op = "remove"
    /\ call.ok
    /\ call.at >= SIZE
    /\ ~polled
    /\ Total(added) = MaxAdds
    /\ Held(pages) = 0
    /\ Len(pages) = SIZE

\* C12: a poll that returns an entry taken from the overflow removes it
\* from the sequence: the overflow is one position shorter and the entries
\* after it shift down by one, in their order.
C12_OverflowPollStep ==
    (call'.op = "poll" /\ is_some(call'.ret) /\ FastHits(pages, {unwrap(call'.ret)}) = {}) =>
        \E j \in OverflowIdx(pages) :
            /\ At(pages, j) = call'.ret
            /\ Len(pages') = Len(pages) - 1
            /\ \A k \in 0..(j - 1) : At(pages', k) = At(pages, k)
            /\ \A k \in j..(Len(pages') - 1) : At(pages', k) = At(pages, k + 1)

C12_OverflowPollShrinks == [][C12_OverflowPollStep]_vars

\* C13: is_empty() returns true iff no bucket is occupied, whatever the
\* overflow holds; when it returns true over an overflow that holds an
\* entry, poll(|_| true) returns an entry.
C13_IsEmpty ==
    call.op = "is_empty" =>
        /\ call.ok <=> (\A i \in FastSlots : At(pages, i) = None)
        /\ (call.ok /\ \E j \in OverflowIdx(pages) : is_some(At(pages, j)))
              => is_some(poll(pages, used_slots, AnyEntry).ret)

\* is_empty() has returned true on a queue whose overflow holds an entry.
C13_Witness ==
    /\ call.op = "is_empty"
    /\ call.ok
    /\ \E j \in OverflowIdx(pages) : is_some(At(pages, j))
    /\ Total(taken) >= 1

\* C14: poll never returns the illegal-shift error: in every reachable
\* state and for every predicate, the shift amounts handed to checked_shr
\* stay at or below SIZE, hence below the width of used_slots.
C14_NoShiftError ==
    /\ call.status # "err"
    /\ SIZE < WordBits
    /\ \A P \in Preds :
          /\ poll(pages, used_slots, P).status # "err"
          /\ poll_last_idx(pages, used_slots, P, 0) <= SIZE

\* A poll has walked past the occupied last bucket, shifting by SIZE, and
\* has answered from the overflow.
C14_Witness ==
    /\ call.op = "poll"
    /\ call.at >= SIZE
    /\ (SIZE - 1) \in used_slots
    /\ \E P \in Preds : poll_last_idx(pages, used_slots, P, 0) = SIZE

\* C15 as stated: for every 8-bit weight, expected_slot is in [0, SIZE-1]
\* (0 for weight 255, at most 7 for weight 0), so add never takes the
\* branch that pushes because expected_slot >= SIZE.
C15_SlotAlwaysInRange ==
    call.op = "add" =>
        /\ leading_zeros(call.weight) \in 0..(SIZE - 1)
        /\ call.weight = 255 => leading_zeros(call.weight) = 0
        /\ ~direct_overflow(call.weight)

\* C15 as amended: for every weight in [1, 255], expected_slot is the
\* number of leading zero bits, in [0, SIZE-1] (0 for weight 255), and the
\* direct push is not taken; for weight 0, expected_slot is SIZE and add
\* takes the direct push, whatever buckets are free.
C15_SlotInRangeUnlessZero ==
    call.op = "add" =>
        /\ leading_zeros(call.weight) = LzCount(call.weight)
        /\ call.weight >= 1 =>
              /\ leading_zeros(call.weight) \in 0..(SIZE - 1)
              /\ ~direct_overflow(call.weight)
        /\ call.weight = 255 => leading_zeros(call.weight) = 0
        /\ call.weight = 0 =>
              /\ leading_zeros(call.weight) = SIZE
              /\ direct_overflow(call.weight)
              /\ call.at >= SIZE

\* add(_, 0) on the empty queue has pushed its entry to the overflow.
C15_Witness ==
    /\ call.op = "add"
    /\ call.weight = 0
    /\ call.at = SIZE
    /\ used_slots = {}
    /\ At(pages, SIZE) = Some(0)

\* C16: the AcqRel ordering of set_bit and the Release ordering of
\* unset_bit order a slot's release before its next successful claim, so a
\* thread holding bit i sees every write made to the slot's buffer by the
\* threads that held the bit before it.
C16_Handoff ==
    \A t \in Threads : \A i \in holds[t] : seen[t][i] = buf[i].version

\* set_bit(5) has just returned true to a thread while the newest content
\* of the buffer of slot 5 was written by another thread, and an operation
\* on another slot came between that write and the claim.
C16_Witness ==
    /\ pool_call.op = "set_bit"
    /\ pool_call.i = 5
    /\ pool_call.ret
    /\ 5 \in holds[pool_call.thread]
    /\ buf[5].version >= 1
    /\ buf[5].writer # pool_call.thread
    /\ seen[pool_call.thread][5] = buf[5].version
    /\ 63 \in pool_pages
    /\ buf[63].version >= 1

\* C17: set_bit(i) and unset_bit(i) change at most bit i of the shared
\* word: every bit j # i is the same after the call as before it, whichever
\* thread calls and whatever other threads hold, so what a call on slot j
\* returns and does is the same before and after a call on slot i.
C17_OtherBitsKeptStep ==
    pool_call'.op \in {"set_bit", "unset_bit"} =>
        LET i == pool_call'.i IN
        /\ pool_pages' \ {i} = pool_pages \ {i}
        /\ \A j \in SlotIdx \ {i} :
              /\ set_bit(pool_pages', j).ret = set_bit(pool_pages, j).ret
              /\ unset_bit(pool_pages', j).ret = unset_bit(pool_pages, j).ret
              /\ j \in set_bit(pool_pages', j).pages
              /\ j \notin unset_bit(pool_pages', j).pages

C17_OtherBitsKept == [][C17_OtherBitsKeptStep]_vars

\* Slot 5 has just been claimed while two other slots are held by two
\* different threads, whose bits are still set.
C17_Witness ==
    /\ pool_call.op = "set_bit"
    /\ pool_call.i = 5
    /\ pool_call.ret
    /\ pool_pages = {0, 5, 63}
    /\ \E t, u \in Threads : t # u /\ 0 \in holds[t] /\ 63 \in holds[u]

\* C18: add never fails.  Every add that was called returned Ok, and in
\* every state reached by add, poll and remove, an add of any weight in
\* [0, 255] would return Ok without tripping an assertion: its
\* destination_slot is >= expected_slot and the bucket it writes held no
\* entry.  add reads the weight only to compute expected_slot, so the
\* smallest weight of each leading-zero count stands for its class.
WeightClasses ==
    {w \in ByteWeights :
        \A v \in ByteWeights : leading_zeros(v) = leading_zeros(w) => w <= v}

C18_AddNeverFails ==
    /\ call.op = "add" => call.status = "ok"
    /\ \A weight \in WeightClasses :
          LET expected_slot == leading_zeros(weight)
              r == add(pages, used_slots, 0, weight)
          IN /\ r.status = "ok"
             /\ expected_slot < SIZE =>
                   /\ destination(used_slots, expected_slot) >= expected_slot
                   /\ r.at >= expected_slot
             /\ r.at < SIZE => At(pages, r.at) = None

\* add(_, 255) found every bucket taken and pushed its entry to the
\* overflow.
C18_Witness ==
    /\ call.op = "add"
    /\ call.weight = 255
    /\ call.status = "ok"
    /\ call.at >= SIZE
    /\ used_slots = 0..(SIZE - 1)
    /\ Total(added) = SIZE + 1

\* C19: a poll that returns None leaves the queue as it was: used_slots,
\* every bucket and the overflow sequence are the same after the call.
C19_NonePollStep ==
    (call'.op = "poll" /\ call'.status = "ok" /\ call'.ret = None) =>
        /\ used_slots' = used_slots
        /\ pages' = pages

C19_NonePoll == [][C19_NonePollStep]_vars

\* poll has just returned None although a bucket and an overflow position
\* hold entries, none of which its predicate accepts.
C19_Witness ==
    /\ call.op = "poll"
    /\ call.ret = None
    /\ used_slots # {}
    /\ \E j \in OverflowIdx(pages) : is_some(At(pages, j))
    /\ Held(pages) >= 2

\* C20: in every state reached by add, poll and remove, pages has at least
\* SIZE positions, so pages.len() - SIZE does not underflow and every
\* index below SIZE is valid, and used_slots has no bit at an index >= SIZE,
\* so the fast path never holds more than SIZE entries.
C20_Structure ==
    /\ Len(pages) >= SIZE
    /\ Len(pages) - SIZE >= 0
    /\ \A i \in FastSlots : i + 1 \in DOMAIN pages
    /\ used_slots \subseteq 0..(SIZE - 1)
    /\ Cardinality({i \in FastSlots : is_some(At(pages, i))}) <= SIZE
    /\ Cardinality(used_slots) <= SIZE

\* Every bucket is taken and the overflow, which held an entry, has been
\* emptied again by remove: pages is back to SIZE positions.
C20_Witness ==
    /\ call.op = "remove"
    /\ call.ok
    /\ call.at >= SIZE
    /\ Len(pages) = SIZE
    /\ used_slots = 0..(SIZE - 1)

====
